---- MODULE Spec2Model ----
(***************************************************************************)
(* Model of the class scrapper: ScrapperManager (browser session), the     *)
(* InfoService (HTML source), the MathService (SharePoint source) and      *)
(* scrape_all, which runs both and merges their class lists.               *)
(*                                                                         *)
(* Everything is awaited sequentially by one coroutine, so the program is  *)
(* one sequential process whose position is pc.  Every browser operation   *)
(* is an input: it succeeds or raises, chosen with \E.                     *)
(*                                                                         *)
(* Strings are sequences of pieces (a piece is a character or an atomic    *)
(* substring such as ".xls"); concatenation is \o.                         *)
(***************************************************************************)
EXTENDS Integers, Sequences, FiniteSets, TLC

VARIABLES
    mgr,        \* ScrapperManager fields: playwright, browser, context, temp_dir
    world,      \* what exists outside the program: engines, browsers, contexts, dirs, files, pages
    pc,         \* position of the running coroutine
    exc,        \* exception the last finished call raised to its caller (NoExc: none)
    lastOp,     \* name of the last finished ScrapperManager call
    cleanupRan, \* steps the last cleanup() executed
    cleanupFault, \* step of the last cleanup() that raised (0: none)
    calls,      \* number of calls made by the manager's client
    scopePage,  \* page yielded by the get_page() scope entered last (0: none)
    bodyExc,    \* exception raised by the body of that scope (NoExc: none)
    math,       \* MathService locals: uo_value, retry_count, scroll_attempts, target_filename, file_path, page
    navigations, \* page.goto(site_url) calls made by _search_and_download_file
    lastOutcome, \* how the last find-and-download attempt ended
    matchSeen,  \* some row rendered during the current scroll search named the target file
    waits,      \* seconds of each wait between find-and-download attempts
    uo_value,   \* scrape_all's argument
    uo_formatted, \* scrape_all's normalized identifier
    info,       \* InfoService locals: url_index, retry_count, all_classes, success_count, page
    info_result, \* what InfoService.scrape_and_process returned
    math_result, \* what MathService.scrape_and_process returned
    result,     \* what scrape_all returned
    math_called, \* MathService.scrape_and_process was invoked
    infoFault,  \* the browser operation of the HTML source that failed last
    infoYield,  \* some candidate URL gave the HTML source a class list
    attempts,   \* per candidate URL tried: get_element_by_uo, the outcome of each attempt on it;
                \* scrape_and_process, the class list it gave
    trigger,    \* the rows enumerated and the row on which _download_file was called last
    fn,         \* name of the function a caller applies to arg
    arg,        \* its argument
    ret         \* what the call returned

mgrVars == <<mgr, world, lastOp, cleanupRan, cleanupFault, scopePage, bodyExc>>
mathVars == <<math, navigations, lastOutcome, matchSeen, waits>>
saVars == <<uo_value, uo_formatted, info, info_result, math_result, result,
            math_called, infoFault, infoYield>>
auxVars == <<attempts, trigger, fn, arg, ret>>

----------------------------------------------------------------------------
(* Bounds of the model *)

\* calls a client of the ScrapperManager makes in SpecManager
MaxCalls == 4

----------------------------------------------------------------------------
(* Exceptions *)

NoExc == [type |-> "none", msg |-> ""]
PlaywrightError == [type |-> "PlaywrightError", msg |-> "browser operation failed"]
OSError == [type |-> "OSError", msg |-> "mkdtemp failed"]
ValueError == [type |-> "ValueError", msg |-> "Test exception"]
IndexError == [type |-> "IndexError", msg |-> "list index out of range"]
AttributeError == [type |-> "AttributeError", msg |-> "'ScrapperManager' object has no attribute 'playwright'"]
NotInitializedError == [type |-> "Exception", msg |-> "Browser context is not initialized."]

\* the error test_scrapper_manager_create_page_without_init expects
ExpectedInitError == [type |-> "RuntimeError", msg |-> "ScrapperManager no inicializado"]

----------------------------------------------------------------------------
(* ScrapperManager *)

\* A field that holds None
None == 0
\* An attribute that was never assigned (reading it raises AttributeError)
Unset == -1

\* ScrapperManager.__init__: browser, context and temp_dir are None; the
\* attribute playwright is not assigned.
ManagerNew == [playwright |-> Unset, browser |-> None, context |-> None, temp_dir |-> None]

\* Nothing launched, nothing on disk.  gen numbers the initialize() calls:
\* the g-th call starts engine g, launches browser g on it, creates temp
\* directory g and opens context g in browser g.  rendered says, while a
\* scroll search runs, whether the list now renders a row naming the file
\* searched for.
WorldNew ==
    [gen |-> 0, engines |-> {}, browsers |-> {}, contexts |-> {}, dirs |-> {},
     files |-> {}, pages |-> {}, nextPage |-> 1, rendered |-> FALSE]

\* Closing context c closes its pages.
CloseContext(w, c) ==
    [w EXCEPT !.contexts = @ \ {c}, !.pages = {p \in @ : p.ctx # c}]

\* Closing browser b closes its context and pages.
CloseBrowser(w, b) ==
    [CloseContext(w, b) EXCEPT !.browsers = @ \ {b}]

\* Stopping engine e ends the browser it launched.
StopEngine(w, e) ==
    [CloseBrowser(w, e) EXCEPT !.engines = @ \ {e}]

\* only the directory entry goes, its files stay on disk
RemoveTree_dir_only(w, d) == [w EXCEPT !.dirs = @ \ {d}]

\* shutil.rmtree(d, ignore_errors=True): the directory and its files go.
RemoveTree(w, d) ==
    [w EXCEPT !.dirs = @ \ {d}, !.files = {f \in @ : f.dir # d}]

\* initialize(); fail is the step that raises: 0 none, 1 start of the
\* engine, 2 browser launch, 3 mkdtemp, 4 new_context.  Fields assigned
\* before the failing step keep their new values.
initialize(m, w, fail) ==
    LET g == w.gen + 1
        w0 == [w EXCEPT !.gen = g]
        m1 == [m EXCEPT !.playwright = g]
        w1 == [w0 EXCEPT !.engines = @ \cup {g}]
        m2 == [m1 EXCEPT !.browser = g]
        w2 == [w1 EXCEPT !.browsers = @ \cup {g}]
        m3 == [m2 EXCEPT !.temp_dir = g]
        w3 == [w2 EXCEPT !.dirs = @ \cup {g}]
        m4 == [m3 EXCEPT !.context = g]
        w4 == [w3 EXCEPT !.contexts = @ \cup {g}]
    IN  CASE fail = 1 -> [mgr |-> m,  world |-> w0, exc |-> PlaywrightError]
          [] fail = 2 -> [mgr |-> m1, world |-> w1, exc |-> PlaywrightError]
          [] fail = 3 -> [mgr |-> m2, world |-> w2, exc |-> OSError]
          [] fail = 4 -> [mgr |-> m3, world |-> w3, exc |-> PlaywrightError]
          [] OTHER    -> [mgr |-> m4, world |-> w4, exc |-> NoExc]

\* create_page(); ok says whether context.new_page() succeeds.  new_page()
\* on a context that was closed cannot succeed.
create_page(m, w, ok) ==
    IF m.context = None
    THEN [world |-> w, page |-> None, exc |-> NotInitializedError]
    ELSE IF ok /\ m.context \in w.contexts
    THEN [world |-> [w EXCEPT !.pages = @ \cup {[id |-> w.nextPage, ctx |-> m.context]},
                              !.nextPage = @ + 1],
          page |-> w.nextPage, exc |-> NoExc]
    ELSE [world |-> w, page |-> None, exc |-> PlaywrightError]

\* the page stays open
ClosePage_skipped(w, p) == w

\* page.close()
ClosePage(w, p) == [w EXCEPT !.pages = {q \in @ : q.id # p}]

IsOpen(w, p) == \E q \in w.pages : q.id = p

\* get_page() without its finally clause: the page is closed only when the
\* body returns
get_page_exit_no_finally(w, p, e) ==
    [world |-> IF e = NoExc THEN ClosePage(w, p) ELSE w, exc |-> e]

\* get_page(), leaving the scope: the finally clause closes the page, then
\* the body's exception (if any) goes on to the caller.
get_page_exit(w, p, e) == [world |-> ClosePage(w, p), exc |-> e]

\* cleanup(); fail is the step that raises: 0 none, 1 context.close(),
\* 2 browser.close(), 3 playwright.stop().  A step whose guard is false is
\* skipped and cannot raise; reading the unassigned attribute playwright
\* raises AttributeError.  rmtree ignores errors.  No field is reset.
cleanup(m, w, fail) ==
    LET do1 == m.context # None
        f1  == do1 /\ fail = 1
        w1  == IF do1 /\ ~f1 THEN CloseContext(w, m.context) ELSE w
        do2 == ~f1 /\ m.browser # None
        f2  == do2 /\ fail = 2
        w2  == IF do2 /\ ~f2 THEN CloseBrowser(w1, m.browser) ELSE w1
        at3 == ~f1 /\ ~f2
        un3 == at3 /\ m.playwright = Unset
        do3 == at3 /\ ~un3
        f3  == do3 /\ fail = 3
        w3  == IF do3 /\ ~f3 THEN StopEngine(w2, m.playwright) ELSE w2
        do4 == at3 /\ ~un3 /\ ~f3 /\ m.temp_dir # None
        w4  == IF do4 THEN RemoveTree(w3, m.temp_dir) ELSE w3
    IN  [world |-> w4,
         ran   |-> (IF do1 THEN {1} ELSE {}) \cup (IF do2 THEN {2} ELSE {})
                   \cup (IF do3 THEN {3} ELSE {}) \cup (IF do4 THEN {4} ELSE {}),
         fault |-> IF f1 THEN 1 ELSE IF f2 THEN 2 ELSE IF f3 THEN 3 ELSE 0,
         exc   |-> IF f1 \/ f2 \/ f3 THEN PlaywrightError
                   ELSE IF un3 THEN AttributeError ELSE NoExc]

----------------------------------------------------------------------------
(* Strings *)

StartsWith(s, prefix) ==
    Len(s) >= Len(prefix) /\ SubSeq(s, 1, Len(prefix)) = prefix

\* str.find for a one-piece needle: the first position of x in s, 0 if absent
Find(s, x) ==
    IF \E i \in 1..Len(s) : s[i] = x
    THEN CHOOSE i \in 1..Len(s) : s[i] = x /\ \A j \in 1..(i - 1) : s[j] # x
    ELSE 0

\* s.split("\n")[0]
FirstLine(s) ==
    IF Find(s, "\n") = 0 THEN s ELSE SubSeq(s, 1, Find(s, "\n") - 1)

IsSpace(c) == c \in {" ", "\n"}

\* str.strip()
Strip(s) ==
    IF \A i \in 1..Len(s) : IsSpace(s[i]) THEN <<>>
    ELSE LET a == CHOOSE i \in 1..Len(s) : ~IsSpace(s[i]) /\ \A j \in 1..(i - 1) : IsSpace(s[j])
             b == CHOOSE i \in 1..Len(s) : ~IsSpace(s[i]) /\ \A j \in (i + 1)..Len(s) : IsSpace(s[j])
         IN  SubSeq(s, a, b)

UpperPiece(c) == CASE c = "u" -> "U" [] c = "o" -> "O" [] OTHER -> c
LowerPiece(c) == CASE c = "U" -> "u" [] c = "O" -> "o" [] OTHER -> c

\* str.upper(), str.lower() on identifiers (letters u, o and digits)
Upper(s) == [i \in 1..Len(s) |-> UpperPiece(s[i])]
Lower(s) == [i \in 1..Len(s) |-> LowerPiece(s[i])]

\* s.replace(old, new) for one-piece old and new
Replace(s, old, new) == [i \in 1..Len(s) |-> IF s[i] = old THEN new ELSE s[i]]

----------------------------------------------------------------------------
(* Identifiers *)

\* Normalize UO format (line 34)
Normalize(uo) ==
    IF StartsWith(Lower(uo), <<"u", "o">>) THEN uo ELSE <<"u", "o">> \o uo

\* identifiers handed to the services
UoInputs == { <<"u", "o", "1">>, <<"1">> }

\* identifiers handed to scrape_all
ScrapeInputs == { <<"1">>, <<"U", "o", "1">> }

----------------------------------------------------------------------------
(* MathService *)

MAX_RETRIES == 3
max_scroll_attempts == 500

\* "Lista_clases_"
ListaClases == <<"Lista", "_", "clases", "_">>

\* f"Lista_clases_{uo_value}@uniovi.es.xls"
TargetFilename(uo) == ListaClases \o uo \o <<"@uniovi.es", ".xls">>

\* no file: _search_and_download_file and _download_file return None
NoPath == [dir |-> None, name |-> <<>>]

\* no download was triggered
NoTrigger == [rows |-> <<>>, hit |-> 0]

MathNew(uo, page) ==
    [uo |-> uo, uo_value |-> uo, retry_count |-> 0, scroll_attempts |-> 0,
     target_filename |-> <<>>, file_path |-> NoPath, page |-> page]

\* the loop condition off by one
ScrollLoopCond_le(n) == n <= max_scroll_attempts

\* while scroll_attempts < max_scroll_attempts
ScrollLoopCond(n) == n < max_scroll_attempts

\* The name the search reads off a row: the first line of its text,
\* stripped, cut just past the first ".xls".
CandidateName(text) ==
    LET file_name == Strip(FirstLine(text))
    IN  IF Find(file_name, ".xls") # 0
        THEN SubSeq(file_name, 1, Find(file_name, ".xls"))
        ELSE file_name

\* any class list triggers the download, whose ever it is
RowIsTarget_prefix(row, target) ==
    /\ row.readable
    /\ StartsWith(Strip(FirstLine(row.text)), ListaClases)

\* The row triggers the download: its text can be read (inner_text()
\* raising is caught and the row skipped), its first line starts with
\* "Lista_clases_" and the candidate name is the target.
RowIsTarget(row, target) ==
    /\ row.readable
    /\ StartsWith(Strip(FirstLine(row.text)), ListaClases)
    /\ CandidateName(row.text) = target

\* for row in visible_rows: the first row that triggers the download (the
\* loop returns there), 0 if none does.
RECURSIVE ScanRows(_, _, _)
ScanRows(rows, i, target) ==
    IF i > Len(rows) THEN 0
    ELSE IF RowIsTarget(rows[i], target) THEN i
    ELSE ScanRows(rows, i + 1, target)

\* file_name.replace(" ", "_").replace("/", "_")
SafeFilename(file_name) == Replace(Replace(file_name, " ", "_"), "/", "_")

\* _download_file; how is "ok", or the step that fails: "click" (right
\* click on the row), "menu" (the Descargar click or the download wait),
\* "save" (save_as).  Every failure is caught and gives None.
download_file(m, w, file_name, how) ==
    IF how = "ok" /\ m.temp_dir # None
    THEN LET path == [dir |-> m.temp_dir, name |-> SafeFilename(file_name)]
         IN  [world |-> [w EXCEPT !.files = @ \cup {path}], file_path |-> path]
    ELSE [world |-> w, file_path |-> NoPath]

(* What the SharePoint list renders: rows for files of students 1 and 2 *)

Row(text) == [readable |-> TRUE, text |-> text]

\* the target of student UO1, with leading space and trailing metadata
TargetRow ==
    Row(<<" ">> \o ListaClases \o <<"U", "O", "1", "@uniovi.es", ".xls", " ", "meta", "\n", "owner">>)
\* the target of student UO1 once more, further down the list
CopyRow ==
    Row(ListaClases \o <<"U", "O", "1", "@uniovi.es", ".xls", "\n", "copy">>)
\* the same name with extension .xlsx
XlsxRow == Row(ListaClases \o <<"U", "O", "1", "@uniovi.es", ".xls", "x">>)
\* the same name with the identifier in lower case
LowerRow == Row(ListaClases \o <<"u", "o", "1", "@uniovi.es", ".xls">>)
\* the file of another student
OtherRow == Row(ListaClases \o <<"U", "O", "2", "@uniovi.es", ".xls">>)
\* a file of student UO1 that is no class list
HorarioRow == Row(<<"Horario", "_", "U", "O", "1", "@uniovi.es", ".xls">>)
\* the header of the list
HeaderRow == Row(<<"Nombre", "\n", "Modificado">>)
\* a row whose inner_text() raises
UnreadableRow == [readable |-> FALSE, text |-> <<>>]

\* the row lists query_selector_all may return
VisibleRows ==
    { <<>>,
      <<HeaderRow, OtherRow>>,
      <<UnreadableRow, HorarioRow>>,
      <<LowerRow>>,
      <<OtherRow, TargetRow>>,
      <<HorarioRow, CopyRow, OtherRow, TargetRow>>,
      <<UnreadableRow, XlsxRow, TargetRow>>,
      <<HeaderRow, LowerRow, HorarioRow>> }

\* The row shows the file called name: its first line, stripped, is name,
\* possibly followed by more text.
RowShowsFile(row, name) ==
    row.readable /\ StartsWith(Strip(FirstLine(row.text)), name)

\* the row list renders a row naming the file
RendersFile(rows, name) == \E i \in 1..Len(rows) : RowShowsFile(rows[i], name)

\* the file names searched for
SearchTargets ==
    { TargetFilename(Upper(uo)) : uo \in UoInputs \cup { Normalize(u) : u \in ScrapeInputs } }

\* one pass of the row loop over each row list, for each file name: the
\* row that triggers the download (0: none) and whether the file is shown
ScanTable ==
    [t \in SearchTargets |->
        [rows \in VisibleRows |->
            [hit |-> ScanRows(rows, 1, t), shown |-> RendersFile(rows, t)]]]

Scan(rows, target) == ScanTable[target][rows]

\* what the list may render after a load or a scroll: lazily, the row of
\* the file searched for (if the list has one) or not
Renderings(name) ==
    { b \in BOOLEAN : b => \E rows \in VisibleRows : Scan(rows, name).shown }

\* after a failed download the search goes on with the next iteration
AfterDownload_continue(file_path) ==
    IF file_path = NoPath THEN "saff_scan" ELSE "saff_ret"

\* if file_path: return file_path / else: return None (lines 142-146):
\* either way _scroll_and_find_file returns
AfterDownload(file_path) == "saff_ret"

\* _search_and_download_file, one attempt up to the search (lines 44-75).
\* how: "nav" goto raises, "rows" wait_for_selector raises, "container"
\* query_selector raises or finds neither the list nor the body, "ok".
SdAttempt ==
    /\ pc = "sd_attempt"
    /\ math.retry_count < MAX_RETRIES
    /\ navigations' = navigations + 1
    /\ \E how \in {"nav", "rows", "container", "ok"} :
         IF how = "ok"
         THEN /\ math' = [math EXCEPT !.uo_value = Upper(@),
                                      !.target_filename = TargetFilename(Upper(math.uo_value)),
                                      !.scroll_attempts = 0]
              /\ pc' = "saff_scan"
              /\ lastOutcome' = "searching"
              /\ \E b \in Renderings(TargetFilename(Upper(math.uo_value))) :
                   world' = [world EXCEPT !.rendered = b]
         ELSE /\ pc' = "sd_except"
              /\ lastOutcome' = how
              /\ math' = math
              /\ world' = world
    /\ matchSeen' = FALSE
    /\ UNCHANGED <<mgr, lastOp, cleanupRan, cleanupFault, scopePage, bodyExc,
                   exc, calls, waits, saVars>>
    /\ UNCHANGED auxVars

\* _scroll_and_find_file: query_selector_all raises; the exception leaves
\* _scroll_and_find_file and is caught by _search_and_download_file.
SaffEnumFail ==
    /\ pc = "saff_scan"
    /\ ScrollLoopCond(math.scroll_attempts)
    /\ pc' = "sd_except"
    /\ lastOutcome' = "enum"
    /\ math' = [math EXCEPT !.scroll_attempts = 0]
    /\ world' = [world EXCEPT !.rendered = FALSE]
    /\ UNCHANGED <<mgr, lastOp, cleanupRan, cleanupFault, scopePage, bodyExc,
                   exc, calls, navigations, matchSeen, waits, saVars>>
    /\ UNCHANGED auxVars

\* one iteration that finds the target row: _download_file, then return
\* its path, or None when the download failed (lines 137-146)
SaffDownload ==
    /\ pc = "saff_scan"
    /\ ScrollLoopCond(math.scroll_attempts)
    /\ \E rows \in VisibleRows :
         LET hit == Scan(rows, math.target_filename).hit
         IN  /\ Scan(rows, math.target_filename).shown = world.rendered
             /\ hit # 0
             /\ trigger' = [rows |-> rows, hit |-> hit]
             /\ matchSeen' = (matchSeen \/ Scan(rows, math.target_filename).shown)
             /\ \E how \in {"ok", "click", "menu", "save"} :
                  LET r == download_file(mgr, world, CandidateName(rows[hit].text), how)
                  IN  /\ world' = [r.world EXCEPT !.rendered = FALSE]
                      /\ math' = [math EXCEPT !.file_path = r.file_path, !.scroll_attempts = 0]
                      /\ lastOutcome' = IF r.file_path = NoPath THEN "download" ELSE "found"
                      /\ pc' = AfterDownload(r.file_path)
    /\ UNCHANGED <<mgr, lastOp, cleanupRan, cleanupFault, scopePage, bodyExc, exc, calls, navigations, waits, saVars>>
    /\ UNCHANGED <<attempts, fn, arg, ret>>

\* one iteration without the target row, then scrollBy(0, 150) and the
\* 300 ms pause
SaffScroll ==
    /\ pc = "saff_scan"
    /\ ScrollLoopCond(math.scroll_attempts)
    /\ \E rows \in VisibleRows :
         /\ Scan(rows, math.target_filename).shown = world.rendered
         /\ Scan(rows, math.target_filename).hit = 0
         /\ matchSeen' = (matchSeen \/ Scan(rows, math.target_filename).shown)
    /\ math' = [math EXCEPT !.scroll_attempts = @ + 1]
    /\ \E b \in Renderings(math.target_filename) : world' = [world EXCEPT !.rendered = b]
    /\ UNCHANGED <<mgr, lastOp, cleanupRan, cleanupFault, scopePage, bodyExc,
                   pc, exc, calls, navigations, lastOutcome, waits, saVars>>
    /\ UNCHANGED auxVars

\* one iteration without the target row whose scroll (or pause) raises:
\* the loop is left (break)
SaffScrollFail ==
    /\ pc = "saff_scan"
    /\ ScrollLoopCond(math.scroll_attempts)
    /\ \E rows \in VisibleRows :
         /\ Scan(rows, math.target_filename).shown = world.rendered
         /\ Scan(rows, math.target_filename).hit = 0
         /\ matchSeen' = (matchSeen \/ Scan(rows, math.target_filename).shown)
    /\ lastOutcome' = "scroll"
    /\ pc' = "saff_end"
    /\ UNCHANGED <<mgrVars, exc, calls, math, navigations, waits, saVars>>
    /\ UNCHANGED auxVars

\* the loop condition fails
SaffExhausted ==
    /\ pc = "saff_scan"
    /\ ~ScrollLoopCond(math.scroll_attempts)
    /\ lastOutcome' = "notfound"
    /\ pc' = "saff_end"
    /\ UNCHANGED <<mgrVars, exc, calls, math, navigations, matchSeen, waits, saVars>>
    /\ UNCHANGED auxVars

\* after the loop (lines 165-166): return None
SaffEnd ==
    /\ pc = "saff_end"
    /\ math' = [math EXCEPT !.file_path = NoPath, !.scroll_attempts = 0]
    /\ pc' = "saff_ret"
    /\ world' = [world EXCEPT !.rendered = FALSE]
    /\ UNCHANGED <<mgr, lastOp, cleanupRan, cleanupFault, scopePage, bodyExc,
                   exc, calls, navigations, lastOutcome, matchSeen, waits, saVars>>
    /\ UNCHANGED auxVars

\* back in _search_and_download_file (lines 81-86): return the path or None
SdReturn ==
    /\ pc = "saff_ret"
    /\ pc' = "sd_ret"
    /\ UNCHANGED <<mgrVars, exc, calls, mathVars, saVars>>
    /\ trigger' = NoTrigger
    /\ UNCHANGED <<attempts, fn, arg, ret>>

\* the failed attempt is not counted
CountAttempt_forgotten(retry_count) == retry_count

\* retry_count += 1 (line 90)
CountAttempt(retry_count) == retry_count + 1

\* the same wait after every failed attempt
wait_time_constant(retry_count) == 5

\* wait_time = 5 * retry_count (line 93), in seconds
wait_time(retry_count) == 5 * retry_count

\* except Exception (lines 88-98): count the attempt, then wait
\* 5 * retry_count seconds and try again, or return None after the last
\* attempt.  The wait itself may raise; nothing catches that.
SdExcept ==
    /\ pc = "sd_except"
    /\ LET n == CountAttempt(math.retry_count)
       IN  /\ math' = [math EXCEPT !.retry_count = n, !.file_path = NoPath]
           /\ IF n < MAX_RETRIES
              THEN /\ waits' = Append(waits, wait_time(n))
                   /\ \E ok \in BOOLEAN :
                        IF ok THEN pc' = "sd_attempt" /\ exc' = exc
                        ELSE pc' = "sd_raise" /\ exc' = PlaywrightError
              ELSE /\ waits' = waits
                   /\ pc' = "sd_ret"
                   /\ exc' = exc
    /\ UNCHANGED <<mgrVars, calls, navigations, lastOutcome, matchSeen, saVars>>
    /\ UNCHANGED auxVars

\* file_path.stem: the name without its extension
Stem(name) ==
    IF Len(name) > 0 /\ name[Len(name)] = ".xls" THEN SubSeq(name, 1, Len(name) - 1) ELSE name

\* s.split(sep)[-1] for a one-piece sep
LastSegment(s, sep) ==
    IF \E i \in 1..Len(s) : s[i] = sep
    THEN LET k == CHOOSE i \in 1..Len(s) : s[i] = sep /\ \A j \in (i + 1)..Len(s) : s[j] # sep
         IN  SubSeq(s, k + 1, Len(s))
    ELSE s

NoResult == [returned |-> FALSE, success |-> FALSE, uo |-> <<>>, classes |-> <<>>]

\* process_xlsx_file: the placeholder reads nothing and returns fixed classes
process_xlsx_file(file_path) ==
    [returned |-> TRUE, success |-> TRUE,
     uo |-> LastSegment(Stem(file_path.name), "_"),
     classes |-> << <<"Class1">>, <<"Class2">>, <<"Class3">> >>]

\* MathService.scrape_and_process, entry: async with get_page() as page.
\* A failing create_page() raises out of scrape_and_process.
MathCall ==
    /\ pc = "math_call"
    /\ math_called' = TRUE
    /\ \E ok \in BOOLEAN :
         LET r == create_page(mgr, world, ok)
         IN  /\ world' = r.world
             /\ IF r.exc = NoExc
                THEN /\ pc' = "sd_attempt"
                     /\ math' = MathNew(uo_formatted, r.page)
                     /\ lastOutcome' = "none"
                     /\ exc' = exc
                ELSE /\ pc' = "math_ret"
                     /\ math' = math
                     /\ lastOutcome' = "page"
                     /\ exc' = r.exc
    /\ navigations' = 0
    /\ matchSeen' = FALSE
    /\ waits' = <<>>
    /\ UNCHANGED <<mgr, lastOp, cleanupRan, cleanupFault, scopePage, bodyExc, calls,
                   uo_value, uo_formatted, info, info_result, math_result, result,
                   infoFault, infoYield>>
    /\ UNCHANGED auxVars

\* the downloaded file is left in the temporary directory
unlink_skipped(w, file_path) == w

\* file_path.unlink(missing_ok=True) (line 35)
unlink(w, file_path) == [w EXCEPT !.files = @ \ {file_path}]

\* MathService.scrape_and_process after the search (lines 26-37): no file
\* gives the failed result; otherwise the file is processed and unlinked.
\* Leaving the scope closes the page.
MathReturn ==
    /\ pc = "sd_ret"
    /\ LET w1 == IF math.file_path = NoPath THEN world
                 ELSE unlink(world, math.file_path)
       IN  world' = get_page_exit(w1, math.page, NoExc).world
    /\ math_result' = IF math.file_path = NoPath
                      THEN [returned |-> TRUE, success |-> FALSE, uo |-> math.uo, classes |-> <<>>]
                      ELSE process_xlsx_file(math.file_path)
    /\ math' = MathNew(<<>>, None)
    /\ pc' = "math_ret"
    /\ UNCHANGED <<mgr, lastOp, cleanupRan, cleanupFault, scopePage, bodyExc, exc, calls,
                   navigations, lastOutcome, matchSeen, waits,
                   uo_value, uo_formatted, info, info_result, result,
                   math_called, infoFault, infoYield>>
    /\ UNCHANGED auxVars

\* an exception leaves _search_and_download_file: the scope closes the
\* page and the exception leaves scrape_and_process
MathRaise ==
    /\ pc = "sd_raise"
    /\ LET r == get_page_exit(world, math.page, exc)
       IN  /\ world' = r.world
           /\ exc' = r.exc
    /\ math' = MathNew(<<>>, None)
    /\ pc' = "math_ret"
    /\ UNCHANGED <<mgr, lastOp, cleanupRan, cleanupFault, scopePage, bodyExc, calls,
                   navigations, lastOutcome, matchSeen, waits, saVars>>
    /\ UNCHANGED auxVars

----------------------------------------------------------------------------
(* InfoService *)

Info_MAX_RETRIES == 3

\* len(INFO_SITE_URLS): candidate URLs configured
NumUrls == 2

InfoNew ==
    [uo_value |-> <<>>, url_index |-> 0, retry_count |-> 0, all_classes |-> <<>>,
     success_count |-> 0, page |-> None]

NoInfoResult ==
    [returned |-> FALSE, success |-> FALSE, uo |-> <<>>, classes |-> <<>>, sources_found |-> 0]

\* the text split at the first separator only
Split_once(s, sep) ==
    IF Find(s, sep) = 0 THEN <<s>>
    ELSE <<SubSeq(s, 1, Find(s, sep) - 1), SubSeq(s, Find(s, sep) + 1, Len(s))>>

\* s.split(sep) for a one-piece sep
RECURSIVE Split(_, _)
Split(s, sep) ==
    IF Find(s, sep) = 0 THEN <<s>>
    ELSE <<SubSeq(s, 1, Find(s, sep) - 1)>> \o Split(SubSeq(s, Find(s, sep) + 1, Len(s)), sep)

\* getListClass on the texts of the 'h1 + p' elements:
\* class_text[0].split(": ")[1].split("; "); an index out of range raises
getListClass(class_text) ==
    IF Len(class_text) = 0 THEN [ok |-> FALSE, class_list |-> <<>>]
    ELSE IF Len(Split(class_text[1], ": ")) < 2 THEN [ok |-> FALSE, class_list |-> <<>>]
    ELSE [ok |-> TRUE, class_list |-> Split(Split(class_text[1], ": ")[2], "; ")]

\* Remove duplicates while preserving order (the loop over all_classes)
RECURSIVE DedupLoop(_, _, _)
DedupLoop(all_classes, seen, unique_classes) ==
    IF all_classes = <<>> THEN unique_classes
    ELSE LET cls == Head(all_classes)
         IN  IF cls \in seen
             THEN DedupLoop(Tail(all_classes), seen, unique_classes)
             ELSE DedupLoop(Tail(all_classes), seen \cup {cls}, Append(unique_classes, cls))

Dedup(all_classes) == DedupLoop(all_classes, {}, <<>>)

(* What the detail page shows in its 'h1 + p' elements *)
DetailPages ==
    { <<>>,
      << <<"Asignaturas">> >>,
      << <<"Asignaturas", ": ", "Class1", "; ", "Alg.T.2">> >>,
      << <<"Asignaturas", ": ", "Alg.T.2", "; ", "SO.T.1", "; ", "Alg.T.2">>, <<"pie">> >> }

\* scrape_and_process: a candidate URL that gave no class list
NoYield == [yield |-> FALSE, classes |-> <<>>]

\* leaving the scope of one URL: the page is closed, the loop goes on
InfoNextUrl(i, w) ==
    /\ world' = get_page_exit(w, i.page, NoExc).world
    /\ info' = [i EXCEPT !.url_index = @ + 1, !.retry_count = 0, !.page = None]
    /\ pc' = "info_url"

\* for site_url in site_urls: async with get_page() as page.  A failing
\* create_page() raises out of scrape_and_process.
InfoUrl ==
    /\ pc = "info_url"
    /\ info.url_index < NumUrls
    /\ \E ok \in BOOLEAN :
         LET r == create_page(mgr, world, ok)
         IN  /\ world' = r.world
             /\ IF r.exc = NoExc
                THEN /\ pc' = "info_nav"
                     /\ info' = [info EXCEPT !.page = r.page, !.retry_count = 0]
                     /\ exc' = exc
                     /\ infoFault' = infoFault
                ELSE /\ pc' = "info_ret"
                     /\ info' = InfoNew
                     /\ exc' = r.exc
                     /\ infoFault' = "page"
    /\ UNCHANGED <<mgr, lastOp, cleanupRan, cleanupFault, scopePage, bodyExc, calls, mathVars,
                   uo_value, uo_formatted, info_result, math_result, result,
                   math_called, infoYield>>
    /\ UNCHANGED auxVars

\* get_element_by_uo_single, an attempt whose goto(site_url) raises
\* PlaywrightError: count it and continue, without a wait
InfoNavFail ==
    /\ pc = "info_nav"
    /\ info.retry_count < Info_MAX_RETRIES
    /\ info' = [info EXCEPT !.retry_count = @ + 1]
    /\ infoFault' = "nav"
    /\ UNCHANGED <<mgrVars, pc, exc, calls, mathVars,
                   uo_value, uo_formatted, info_result, math_result, result,
                   math_called, infoYield>>
    /\ UNCHANGED auxVars

\* an attempt that loads the listing but gets no detail page: the anchor
\* has no href ("nohref"), get_attribute raises ("attr") or goto(href)
\* raises ("navhref").  Count it; before another attempt wait one second.
\* The wait is outside the try: when it raises, scrape_and_process catches
\* the exception and goes on to the next URL.
InfoNoLink ==
    /\ pc = "info_nav"
    /\ info.retry_count < Info_MAX_RETRIES
    /\ \E how \in {"nohref", "attr", "navhref"}, waitOk \in BOOLEAN :
         LET n == info.retry_count + 1
         IN  IF n < Info_MAX_RETRIES /\ ~waitOk
             THEN /\ InfoNextUrl(info, world)
                  /\ infoFault' = "wait"
                  /\ attempts' = Append(attempts, NoYield)
             ELSE /\ info' = [info EXCEPT !.retry_count = n]
                  /\ infoFault' = how
                  /\ attempts' = attempts
                  /\ UNCHANGED <<world, pc>>
    /\ UNCHANGED <<mgr, lastOp, cleanupRan, cleanupFault, scopePage, bodyExc, exc, calls, mathVars,
                   uo_value, uo_formatted, info_result, math_result, result,
                   math_called, infoYield>>
    /\ UNCHANGED <<trigger, fn, arg, ret>>

\* an attempt that finds the anchor and loads its href: return page
InfoFound ==
    /\ pc = "info_nav"
    /\ info.retry_count < Info_MAX_RETRIES
    /\ pc' = "info_list"
    /\ infoFault' = "none"
    /\ UNCHANGED <<mgrVars, exc, calls, mathVars,
                   uo_value, uo_formatted, info, info_result, math_result, result,
                   math_called, infoYield>>
    /\ UNCHANGED auxVars

\* the retries are used up: get_element_by_uo_single returns None and
\* scrape_and_process goes on to the next URL
InfoGiveUp ==
    /\ pc = "info_nav"
    /\ info.retry_count >= Info_MAX_RETRIES
    /\ InfoNextUrl(info, world)
    /\ UNCHANGED <<mgr, lastOp, cleanupRan, cleanupFault, scopePage, bodyExc, exc, calls, mathVars,
                   uo_value, uo_formatted, info_result, math_result, result,
                   math_called, infoFault, infoYield>>
    /\ attempts' = Append(attempts, NoYield)
    /\ UNCHANGED <<trigger, fn, arg, ret>>

\* only the browser's errors are caught
InfoCatches_playwright_only(e) == e = PlaywrightError

\* except Exception as e: continue (lines 39-41)
InfoCatches(e) == TRUE

\* getListClass(result_page): all_text_contents() raises, or the texts
\* are parsed (an index out of range raises IndexError); any exception is
\* caught and the URL contributes nothing
InfoList ==
    /\ pc = "info_list"
    /\ \E textsOk \in BOOLEAN, class_text \in DetailPages :
         LET r == getListClass(class_text)
             e == IF textsOk THEN IndexError ELSE PlaywrightError
         IN  IF textsOk /\ r.ok
             THEN /\ InfoNextUrl([info EXCEPT !.all_classes = @ \o r.class_list,
                                              !.success_count = @ + 1], world)
                  /\ infoFault' = "none"
                  /\ infoYield' = TRUE
                  /\ exc' = exc
                  /\ attempts' = Append(attempts, [yield |-> TRUE, classes |-> r.class_list])
             ELSE IF InfoCatches(e)
             THEN /\ InfoNextUrl(info, world)
                  /\ infoFault' = IF textsOk THEN "parse" ELSE "texts"
                  /\ infoYield' = infoYield
                  /\ exc' = exc
                  /\ attempts' = Append(attempts, NoYield)
             ELSE /\ attempts' = attempts
                  /\ world' = get_page_exit(world, info.page, e).world
                  /\ exc' = get_page_exit(world, info.page, e).exc
                  /\ info' = InfoNew
                  /\ pc' = "info_ret"
                  /\ infoFault' = IF textsOk THEN "parse" ELSE "texts"
                  /\ infoYield' = infoYield
    /\ UNCHANGED <<mgr, lastOp, cleanupRan, cleanupFault, scopePage, bodyExc, calls, mathVars,
                   uo_value, uo_formatted, info_result, math_result, result, math_called>>
    /\ UNCHANGED <<trigger, fn, arg, ret>>

\* after the last URL: return the result (lines 43-56)
InfoReturn ==
    /\ pc = "info_url"
    /\ info.url_index >= NumUrls
    /\ info_result' = [returned |-> TRUE,
                       success |-> info.success_count > 0,
                       uo |-> info.uo_value,
                       classes |-> Dedup(info.all_classes),
                       sources_found |-> info.success_count]
    /\ info' = InfoNew
    /\ pc' = "info_ret"
    /\ UNCHANGED <<mgrVars, exc, calls, mathVars,
                   uo_value, uo_formatted, math_result, result,
                   math_called, infoFault, infoYield>>
    /\ UNCHANGED auxVars

----------------------------------------------------------------------------
(* InfoService.get_element_by_uo(page, uo_value): the listing locator that *)
(* tries every candidate URL on one page                                   *)

\* the result of get_element_by_uo_single ends the search
GeuReturns_always(result_page) == TRUE

\* if result is not None: return result (lines 108-109)
GeuReturns(result_page) == result_page # None

\* the outcome of one more attempt on the candidate URL tried now
RecordAttempt(a, how) == [a EXCEPT ![Len(a)] = Append(@, how)]

\* get_element_by_uo_single returned result_page (lines 107-111)
GeuAfterSingle(result_page) ==
    IF GeuReturns(result_page)
    THEN /\ ret' = result_page
         /\ pc' = "geu_ret"
         /\ info' = info
    ELSE /\ ret' = ret
         /\ pc' = "geu_url"
         /\ info' = [info EXCEPT !.url_index = @ + 1, !.retry_count = 0]

\* for site_url in site_urls: call get_element_by_uo_single (lines 104-107)
GeuUrl ==
    /\ pc = "geu_url"
    /\ info.url_index < NumUrls
    /\ pc' = "geu_nav"
    /\ info' = [info EXCEPT !.retry_count = 0]
    /\ attempts' = Append(attempts, <<>>)
    /\ UNCHANGED <<mgrVars, exc, calls, mathVars, uo_value, uo_formatted, info_result,
                   math_result, result, math_called, infoFault, infoYield,
                   trigger, fn, arg, ret>>

\* an attempt whose goto(site_url) raises PlaywrightError (lines 67-73)
GeuNavFail ==
    /\ pc = "geu_nav"
    /\ info.retry_count < Info_MAX_RETRIES
    /\ info' = [info EXCEPT !.retry_count = @ + 1]
    /\ attempts' = RecordAttempt(attempts, "nav")
    /\ infoFault' = "nav"
    /\ UNCHANGED <<mgrVars, pc, exc, calls, mathVars, uo_value, uo_formatted, info_result,
                   math_result, result, math_called, infoYield,
                   trigger, fn, arg, ret>>

\* an attempt that loads the listing but gets no detail page (lines 75-90).
\* The wait before the next attempt is outside the try: when it raises,
\* the exception leaves get_element_by_uo.
GeuNoLink ==
    /\ pc = "geu_nav"
    /\ info.retry_count < Info_MAX_RETRIES
    /\ \E how \in {"nohref", "attr", "navhref"}, waitOk \in BOOLEAN :
         LET n == info.retry_count + 1
         IN  /\ attempts' = RecordAttempt(attempts, how)
             /\ info' = [info EXCEPT !.retry_count = n]
             /\ IF n < Info_MAX_RETRIES /\ ~waitOk
                THEN /\ pc' = "geu_ret"
                     /\ exc' = PlaywrightError
                     /\ infoFault' = "wait"
                ELSE /\ pc' = pc
                     /\ exc' = exc
                     /\ infoFault' = how
    /\ UNCHANGED <<mgrVars, calls, mathVars, uo_value, uo_formatted, info_result,
                   math_result, result, math_called, infoYield,
                   trigger, fn, arg, ret>>

\* an attempt that finds the anchor and loads its href (lines 78-82)
GeuFound ==
    /\ pc = "geu_nav"
    /\ info.retry_count < Info_MAX_RETRIES
    /\ attempts' = RecordAttempt(attempts, "found")
    /\ infoFault' = "none"
    /\ GeuAfterSingle(info.page)
    /\ UNCHANGED <<mgrVars, exc, calls, mathVars, uo_value, uo_formatted, info_result,
                   math_result, result, math_called, infoYield,
                   trigger, fn, arg>>

\* the retries on this URL are used up (lines 92-93)
GeuGiveUp ==
    /\ pc = "geu_nav"
    /\ info.retry_count >= Info_MAX_RETRIES
    /\ GeuAfterSingle(None)
    /\ UNCHANGED <<mgrVars, exc, calls, mathVars, uo_value, uo_formatted, info_result,
                   math_result, result, math_called, infoFault, infoYield,
                   attempts, trigger, fn, arg>>

\* after the last URL: return None (lines 113-114)
GeuReturnNone ==
    /\ pc = "geu_url"
    /\ info.url_index >= NumUrls
    /\ ret' = None
    /\ pc' = "geu_ret"
    /\ UNCHANGED <<mgrVars, exc, calls, mathVars, uo_value, uo_formatted, info, info_result,
                   math_result, result, math_called, infoFault, infoYield,
                   attempts, trigger, fn, arg>>

----------------------------------------------------------------------------
(* scrape_all *)

NoFinalResult ==
    [returned |-> FALSE, success |-> FALSE, uo |-> <<>>, classes |-> <<>>,
     sources |-> [gobierno |-> FALSE, sharepoint |-> FALSE]]

\* the spreadsheet source's classes merged before the HTML source's
Merge_math_first(uo, ir, mr) ==
    LET all_classes == (IF mr.success THEN mr.classes ELSE <<>>)
                       \o (IF ir.success THEN ir.classes ELSE <<>>)
    IN  [returned |-> TRUE,
         success |-> ir.success \/ mr.success,
         uo |-> uo,
         classes |-> Dedup(all_classes),
         sources |-> [gobierno |-> ir.success, sharepoint |-> mr.success]]

\* success only when both sources succeeded
Merge_both(uo, ir, mr) ==
    LET all_classes == (IF ir.success THEN ir.classes ELSE <<>>)
                       \o (IF mr.success THEN mr.classes ELSE <<>>)
    IN  [returned |-> TRUE,
         success |-> ir.success /\ mr.success,
         uo |-> uo,
         classes |-> Dedup(all_classes),
         sources |-> [gobierno |-> ir.success, sharepoint |-> mr.success]]

\* Combine results (lines 42-70)
Merge(uo, ir, mr) ==
    LET all_classes == (IF ir.success THEN ir.classes ELSE <<>>)
                       \o (IF mr.success THEN mr.classes ELSE <<>>)
    IN  [returned |-> TRUE,
         success |-> ir.success \/ mr.success,
         uo |-> uo,
         classes |-> Dedup(all_classes),
         sources |-> [gobierno |-> ir.success, sharepoint |-> mr.success]]

\* ScrapperManager(); await initialize().  The call is outside the try:
\* when it raises, scrape_all raises without cleanup().
SaStart ==
    /\ pc = "sa_start"
    /\ \E fail \in 0..4 :
         LET r == initialize(ManagerNew, world, fail)
         IN  /\ mgr' = r.mgr
             /\ world' = r.world
             /\ exc' = r.exc
             /\ pc' = IF r.exc = NoExc THEN "info_url" ELSE "sa_done"
             /\ uo_formatted' = IF r.exc = NoExc THEN Normalize(uo_value) ELSE uo_formatted
             /\ info' = IF r.exc = NoExc
                        THEN [InfoNew EXCEPT !.uo_value = Normalize(uo_value)]
                        ELSE info
    /\ lastOp' = "initialize"
    /\ UNCHANGED <<cleanupRan, cleanupFault, scopePage, bodyExc, calls, mathVars,
                   uo_value, info_result, math_result, result,
                   math_called, infoFault, infoYield>>
    /\ UNCHANGED auxVars

\* an exception of the first source leaves scrape_all at once
AfterInfo_no_finally(e) == IF e = NoExc THEN "math_call" ELSE "sa_done"

\* after line 37: on to the second source; an exception goes to the
\* finally clause (lines 74-75)
AfterInfo(e) == IF e = NoExc THEN "math_call" ELSE "sa_finally"

\* info_service.scrape_and_process returned or raised (line 37)
SaAfterInfo ==
    /\ pc = "info_ret"
    /\ pc' = AfterInfo(exc)
    /\ infoFault' = "none"
    /\ infoYield' = FALSE
    /\ UNCHANGED <<mgrVars, exc, calls, mathVars,
                   uo_value, uo_formatted, info, info_result, math_result, result, math_called>>
    /\ attempts' = <<>>
    /\ UNCHANGED <<trigger, fn, arg, ret>>

\* math_service.scrape_and_process returned or raised (line 40); when it
\* returned, the results are combined
SaAfterMath ==
    /\ pc = "math_ret"
    /\ result' = IF exc = NoExc THEN Merge(uo_formatted, info_result, math_result) ELSE result
    /\ pc' = "sa_finally"
    /\ UNCHANGED <<mgrVars, exc, calls, mathVars,
                   uo_value, uo_formatted, info, info_result, math_result,
                   math_called, infoFault, infoYield>>
    /\ UNCHANGED auxVars

\* finally: await cleanup().  An exception of cleanup() replaces the
\* result or the exception on its way out.
SaFinally ==
    /\ pc = "sa_finally"
    /\ \E fail \in 0..3 :
         LET r == cleanup(mgr, world, fail)
         IN  /\ world' = r.world
             /\ cleanupRan' = r.ran
             /\ cleanupFault' = r.fault
             /\ exc' = IF r.exc = NoExc THEN exc ELSE r.exc
             /\ result' = IF r.exc = NoExc THEN result ELSE NoFinalResult
    /\ lastOp' = "cleanup"
    /\ pc' = "sa_done"
    /\ UNCHANGED <<mgr, scopePage, bodyExc, calls, mathVars,
                   uo_value, uo_formatted, info, info_result, math_result,
                   math_called, infoFault, infoYield>>
    /\ UNCHANGED auxVars

\* main_async has not exited
NotExited == [success |-> FALSE, error |-> "", code |-> Unset, unhandled |-> NoExc]

\* the exception of scrape_all leaves main_async unhandled
main_exit_unhandled(res, e) ==
    IF e = NoExc
    THEN [success |-> res.success, error |-> "", code |-> IF res.success THEN 0 ELSE 1,
          unhandled |-> NoExc]
    ELSE [success |-> FALSE, error |-> "", code |-> 1, unhandled |-> e]

\* main_async after scrape_all (main.py lines 103-117): print the result
\* and exit with 1 unless it is a success; an exception is caught and
\* printed as {"success": false, "error": str(e)}, then exit(1)
main_exit(res, e) ==
    IF e = NoExc
    THEN [success |-> res.success, error |-> "", code |-> IF res.success THEN 0 ELSE 1,
          unhandled |-> NoExc]
    ELSE [success |-> FALSE, error |-> e.msg, code |-> 1, unhandled |-> NoExc]

\* scrape_all has returned or raised to main_async, which prints and exits
MainExit ==
    /\ pc = "sa_done"
    /\ ret' = main_exit(result, exc)
    /\ pc' = "exited"
    /\ UNCHANGED <<mgrVars, exc, calls, mathVars, saVars, attempts, trigger, fn, arg>>

----------------------------------------------------------------------------
(* A client of the ScrapperManager (the manager's tests): it constructs a  *)
(* manager and calls its methods in any order.                             *)

InitManager ==
    /\ mgr = ManagerNew
    /\ world = WorldNew
    /\ pc = "idle"
    /\ exc = NoExc
    /\ lastOp = "__init__"
    /\ cleanupRan = {}
    /\ cleanupFault = 0
    /\ calls = 0
    /\ scopePage = None
    /\ bodyExc = NoExc
    /\ math = MathNew(<<>>, None)
    /\ navigations = 0
    /\ lastOutcome = "none"
    /\ matchSeen = FALSE
    /\ waits = <<>>
    /\ uo_value = <<>>
    /\ uo_formatted = <<>>
    /\ info = InfoNew
    /\ info_result = NoInfoResult
    /\ math_result = NoResult
    /\ result = NoFinalResult
    /\ math_called = FALSE
    /\ infoFault = "none"
    /\ infoYield = FALSE
    /\ attempts = <<>>
    /\ trigger = NoTrigger
    /\ fn = "none"
    /\ arg = <<>>
    /\ ret = Unset

\* await manager.initialize()
T_Initialize ==
    /\ pc = "idle" /\ calls < MaxCalls
    /\ \E fail \in 0..4 :
         LET r == initialize(mgr, world, fail)
         IN  /\ mgr' = r.mgr
             /\ world' = r.world
             /\ exc' = r.exc
    /\ lastOp' = "initialize"
    /\ calls' = calls + 1
    /\ UNCHANGED <<pc, cleanupRan, cleanupFault, scopePage, bodyExc, mathVars, saVars>>
    /\ UNCHANGED auxVars

\* page = await manager.create_page()
T_CreatePage ==
    /\ pc = "idle" /\ calls < MaxCalls
    /\ \E ok \in BOOLEAN :
         LET r == create_page(mgr, world, ok)
         IN  /\ world' = r.world
             /\ exc' = r.exc
    /\ lastOp' = "create_page"
    /\ calls' = calls + 1
    /\ UNCHANGED <<mgr, pc, cleanupRan, cleanupFault, scopePage, bodyExc, mathVars, saVars>>
    /\ UNCHANGED auxVars

\* async with manager.get_page() as page: the scope is entered when
\* create_page() succeeds; otherwise its exception reaches the client.
T_GetPageEnter ==
    /\ pc = "idle" /\ calls < MaxCalls
    /\ \E ok \in BOOLEAN :
         LET r == create_page(mgr, world, ok)
         IN  /\ world' = r.world
             /\ exc' = r.exc
             /\ scopePage' = r.page
             /\ pc' = IF r.exc = NoExc THEN "in_scope" ELSE "idle"
    /\ lastOp' = "get_page_enter"
    /\ bodyExc' = NoExc
    /\ calls' = calls + 1
    /\ UNCHANGED <<mgr, cleanupRan, cleanupFault, mathVars, saVars>>
    /\ UNCHANGED auxVars

\* the body of the scope returns, or raises as the test's body does
T_GetPageExit ==
    /\ pc = "in_scope"
    /\ \E e \in {NoExc, ValueError} :
         LET r == get_page_exit(world, scopePage, e)
         IN  /\ bodyExc' = e
             /\ world' = r.world
             /\ exc' = r.exc
    /\ pc' = "idle"
    /\ lastOp' = "get_page_exit"
    /\ UNCHANGED <<mgr, cleanupRan, cleanupFault, calls, scopePage, mathVars, saVars>>
    /\ UNCHANGED auxVars

\* await manager.cleanup()
T_Cleanup ==
    /\ pc = "idle" /\ calls < MaxCalls
    /\ \E fail \in 0..3 :
         LET r == cleanup(mgr, world, fail)
         IN  /\ world' = r.world
             /\ exc' = r.exc
             /\ cleanupRan' = r.ran
             /\ cleanupFault' = r.fault
    /\ lastOp' = "cleanup"
    /\ calls' = calls + 1
    /\ UNCHANGED <<mgr, pc, scopePage, bodyExc, mathVars, saVars>>
    /\ UNCHANGED auxVars

\* the client writes test.txt into the temporary directory
T_WriteFile ==
    /\ pc = "idle" /\ calls < MaxCalls
    /\ mgr.temp_dir # None
    /\ mgr.temp_dir \in world.dirs
    /\ world' = [world EXCEPT !.files = @ \cup {[dir |-> mgr.temp_dir, name |-> <<"test.txt">>]}]
    /\ lastOp' = "write_file"
    /\ exc' = NoExc
    /\ calls' = calls + 1
    /\ UNCHANGED <<mgr, pc, cleanupRan, cleanupFault, scopePage, bodyExc, mathVars, saVars>>
    /\ UNCHANGED auxVars

vars == <<mgr, world, pc, exc, lastOp, cleanupRan, cleanupFault, calls, scopePage, bodyExc,
          math, navigations, lastOutcome, matchSeen, waits,
          uo_value, uo_formatted, info, info_result, math_result, result,
          math_called, infoFault, infoYield,
          attempts, trigger, fn, arg, ret>>

----------------------------------------------------------------------------
(* A caller of MathService._search_and_download_file(page, uo_value) on an *)
(* initialized manager, with a page it got from the manager.               *)

InitLocator ==
    /\ mgr = initialize(ManagerNew, WorldNew, 0).mgr
    /\ world = create_page(mgr, initialize(ManagerNew, WorldNew, 0).world, TRUE).world
    /\ pc = "sd_attempt"
    /\ exc = NoExc
    /\ lastOp = "create_page"
    /\ cleanupRan = {}
    /\ cleanupFault = 0
    /\ calls = 0
    /\ scopePage = None
    /\ bodyExc = NoExc
    /\ \E uo \in UoInputs : math = MathNew(uo, 1)
    /\ navigations = 0
    /\ lastOutcome = "none"
    /\ matchSeen = FALSE
    /\ waits = <<>>
    /\ uo_value = <<>>
    /\ uo_formatted = <<>>
    /\ info = InfoNew
    /\ info_result = NoInfoResult
    /\ math_result = NoResult
    /\ result = NoFinalResult
    /\ math_called = FALSE
    /\ infoFault = "none"
    /\ infoYield = FALSE
    /\ attempts = <<>>
    /\ trigger = NoTrigger
    /\ fn = "none"
    /\ arg = <<>>
    /\ ret = Unset

NextLocator ==
    \/ SdAttempt
    \/ SaffEnumFail
    \/ SaffDownload
    \/ SaffScroll
    \/ SaffScrollFail
    \/ SaffExhausted
    \/ SaffEnd
    \/ SdReturn
    \/ SdExcept

----------------------------------------------------------------------------
(* scrape_all(uo_value), called by main_async or directly *)

Init ==
    /\ mgr = ManagerNew
    /\ world = WorldNew
    /\ pc = "sa_start"
    /\ exc = NoExc
    /\ lastOp = "__init__"
    /\ cleanupRan = {}
    /\ cleanupFault = 0
    /\ calls = 0
    /\ scopePage = None
    /\ bodyExc = NoExc
    /\ math = MathNew(<<>>, None)
    /\ navigations = 0
    /\ lastOutcome = "none"
    /\ matchSeen = FALSE
    /\ waits = <<>>
    /\ uo_value \in ScrapeInputs
    /\ uo_formatted = <<>>
    /\ info = InfoNew
    /\ info_result = NoInfoResult
    /\ math_result = NoResult
    /\ result = NoFinalResult
    /\ math_called = FALSE
    /\ infoFault = "none"
    /\ infoYield = FALSE
    /\ attempts = <<>>
    /\ trigger = NoTrigger
    /\ fn = "none"
    /\ arg = <<>>
    /\ ret = NotExited

Next ==
    \/ SaStart
    \/ InfoUrl
    \/ InfoNavFail
    \/ InfoNoLink
    \/ InfoFound
    \/ InfoGiveUp
    \/ InfoList
    \/ InfoReturn
    \/ SaAfterInfo
    \/ MathCall
    \/ SdAttempt
    \/ SaffEnumFail
    \/ SaffDownload
    \/ SaffScroll
    \/ SaffScrollFail
    \/ SaffExhausted
    \/ SaffEnd
    \/ SdReturn
    \/ SdExcept
    \/ MathReturn
    \/ MathRaise
    \/ SaAfterMath
    \/ SaFinally
    \/ MainExit

NextManager ==
    \/ T_Initialize
    \/ T_CreatePage
    \/ T_GetPageEnter
    \/ T_GetPageExit
    \/ T_Cleanup
    \/ T_WriteFile

Spec == Init /\ [][Next]_vars

\* One coroutine awaits every operation in turn, and every awaited browser
\* operation returns or fails within its timeout: the run always takes its
\* next step.
SpecLive == Init /\ [][Next]_vars /\ WF_vars(Next)

SpecManager == InitManager /\ [][NextManager]_vars

SpecLocator == InitLocator /\ [][NextLocator]_vars

----------------------------------------------------------------------------
(* A caller of InfoService.get_element_by_uo(page, uo_value) on an         *)
(* initialized manager, with a page it got from the manager.               *)

InitListing ==
    /\ mgr = initialize(ManagerNew, WorldNew, 0).mgr
    /\ world = create_page(mgr, initialize(ManagerNew, WorldNew, 0).world, TRUE).world
    /\ pc = "geu_url"
    /\ exc = NoExc
    /\ lastOp = "create_page"
    /\ cleanupRan = {}
    /\ cleanupFault = 0
    /\ calls = 0
    /\ scopePage = None
    /\ bodyExc = NoExc
    /\ math = MathNew(<<>>, None)
    /\ navigations = 0
    /\ lastOutcome = "none"
    /\ matchSeen = FALSE
    /\ waits = <<>>
    /\ uo_value = <<>>
    /\ uo_formatted = <<>>
    /\ \E uo \in UoInputs : info = [InfoNew EXCEPT !.uo_value = uo, !.page = 1]
    /\ info_result = NoInfoResult
    /\ math_result = NoResult
    /\ result = NoFinalResult
    /\ math_called = FALSE
    /\ infoFault = "none"
    /\ infoYield = FALSE
    /\ attempts = <<>>
    /\ trigger = NoTrigger
    /\ fn = "none"
    /\ arg = <<>>
    /\ ret = Unset

NextListing ==
    \/ GeuUrl
    \/ GeuNavFail
    \/ GeuNoLink
    \/ GeuFound
    \/ GeuGiveUp
    \/ GeuReturnNone

SpecListing == InitListing /\ [][NextListing]_vars

----------------------------------------------------------------------------
(* Callers of the functions: the identifier normalization of main_async    *)
(* and scrape_all, getListClass on a detail page, process_xlsx_file on a   *)
(* path.  Each behaviour is one call: pc goes from "fn_call" to "fn_done". *)

\* digits of the identifiers tried
MaxDigits == 2
\* class tokens of the detail pages tried
MaxTokens == 3

Digits == {"1", "2"}
DigitStrings == UNION { [1..n -> Digits] : n \in 1..MaxDigits }

\* an optional "uo" prefix in any letter case, then digits
IdInputs ==
    { p \o d : p \in { <<>>, <<"u", "o">>, <<"U", "O">>, <<"U", "o">>, <<"u", "O">> },
               d \in DigitStrings }

\* str.capitalize(): the first character in upper case, the rest in lower case
Capitalize(s) ==
    [i \in 1..Len(s) |-> IF i = 1 THEN UpperPiece(s[i]) ELSE LowerPiece(s[i])]

\* main_async's normalization (main.py lines 96-101)
MainNormalize(uo) ==
    IF ~StartsWith(Lower(uo), <<"u", "o">>)
    THEN <<"U", "o">> \o uo
    ELSE Capitalize(SubSeq(uo, 1, 2)) \o SubSeq(uo, 3, Len(uo))

\* sep.join(tokens)
RECURSIVE Join(_, _)
Join(tokens, sep) ==
    IF Len(tokens) = 0 THEN <<>>
    ELSE IF Len(tokens) = 1 THEN tokens[1]
    ELSE tokens[1] \o <<sep>> \o Join(Tail(tokens), sep)

Tokens == { <<"Alg.T.2">>, <<"Alg.S.1">>, <<"Alg.L.3">> }
TokenLists == UNION { [1..n -> Tokens] : n \in 1..MaxTokens }

\* the paragraph after the heading: "Asignaturas: t1; t2; ..."
PageText(tokens) == <<"Asignaturas", ": ">> \o Join(tokens, "; ")

\* what 'h1 + p' may give: nothing, a paragraph without ": ", the class
\* paragraph alone or followed by another paragraph
ClassTexts ==
    { <<>>, << <<"Asignaturas">> >> }
    \cup { << PageText(t) >> : t \in TokenLists }
    \cup { << PageText(t), <<"pie">> >> : t \in TokenLists }

\* the file a search downloaded into the temporary directory
DownloadedFile == [dir |-> initialize(ManagerNew, WorldNew, 0).mgr.temp_dir, name |-> TargetFilename(<<"U", "O", "1">>)]

\* paths handed to process_xlsx_file: the downloaded file, a file that was
\* never downloaded, and /tmp/non_existent_file.xls
PathInputs ==
    { DownloadedFile,
      [dir |-> DownloadedFile.dir, name |-> TargetFilename(<<"U", "O", "2">>)],
      [dir |-> None, name |-> <<"non", "_", "existent", "_", "file", ".xls">>] }

\* the cells of the downloaded spreadsheet
Cells == {"MOR-PL1", "B04", "11:00-12:00", "Lunes", "Nombre"}

FnInputs(f) ==
    CASE f = "main" -> IdInputs
      [] f = "scrape_all" -> IdInputs
      [] f = "getListClass" -> ClassTexts
      [] f = "process_xlsx_file" -> PathInputs

InitFunctions ==
    /\ mgr = initialize(ManagerNew, WorldNew, 0).mgr
    /\ world = [initialize(ManagerNew, WorldNew, 0).world EXCEPT !.files = {DownloadedFile}]
    /\ pc = "fn_call"
    /\ exc = NoExc
    /\ lastOp = "initialize"
    /\ cleanupRan = {}
    /\ cleanupFault = 0
    /\ calls = 0
    /\ scopePage = None
    /\ bodyExc = NoExc
    /\ math = MathNew(<<>>, None)
    /\ navigations = 0
    /\ lastOutcome = "none"
    /\ matchSeen = FALSE
    /\ waits = <<>>
    /\ uo_value = <<>>
    /\ uo_formatted = <<>>
    /\ info = InfoNew
    /\ info_result = NoInfoResult
    /\ math_result = NoResult
    /\ result = NoFinalResult
    /\ math_called = FALSE
    /\ infoFault = "none"
    /\ infoYield = FALSE
    /\ attempts = <<>>
    /\ trigger = NoTrigger
    /\ fn \in {"main", "scrape_all", "getListClass", "process_xlsx_file"}
    /\ arg \in FnInputs(fn)
    /\ ret = Unset

FnUnchanged ==
    UNCHANGED <<mgrVars, exc, calls, mathVars, saVars, attempts, trigger, fn, arg>>

\* main_async: normalize, then scrape_all(uo), which normalizes again
FnMain ==
    /\ pc = "fn_call"
    /\ fn = "main"
    /\ ret' = Normalize(MainNormalize(arg))
    /\ pc' = "fn_done"
    /\ FnUnchanged

\* scrape_all(uo_value) called directly: uo_formatted
FnScrapeAll ==
    /\ pc = "fn_call"
    /\ fn = "scrape_all"
    /\ ret' = Normalize(arg)
    /\ pc' = "fn_done"
    /\ FnUnchanged

\* getListClass(page) on a page whose 'h1 + p' elements have the texts arg
FnGetListClass ==
    /\ pc = "fn_call"
    /\ fn = "getListClass"
    /\ ret' = getListClass(arg)
    /\ pc' = "fn_done"
    /\ FnUnchanged

\* process_xlsx_file(file_path)
FnProcessXlsx ==
    /\ pc = "fn_call"
    /\ fn = "process_xlsx_file"
    /\ ret' = process_xlsx_file(arg)
    /\ pc' = "fn_done"
    /\ FnUnchanged

NextFunctions ==
    \/ FnMain
    \/ FnScrapeAll
    \/ FnGetListClass
    \/ FnProcessXlsx

SpecFunctions == InitFunctions /\ [][NextFunctions]_vars

----------------------------------------------------------------------------
(* Claims about scrape_all, checked under Spec *)

\* the position at which x occurs first in s
FirstAt(s, x) == CHOOSE i \in 1..Len(s) : s[i] = x /\ \A j \in 1..(i - 1) : s[j] # x

\* u holds every element of s exactly once, in the order of the first
\* occurrences in s
IsOrderedDedup(u, s) ==
    /\ \A i, j \in 1..Len(u) : i # j => u[i] # u[j]
    /\ {u[i] : i \in 1..Len(u)} = {s[i] : i \in 1..Len(s)}
    /\ \A i, j \in 1..Len(u) : i < j => FirstAt(s, u[i]) < FirstAt(s, u[j])

\* C1: the classes scrape_all returns are the first-occurrence-order
\* deduplication of the HTML source's classes followed by the spreadsheet
\* source's classes.
C1_MergeDedup ==
    result.returned =>
        IsOrderedDedup(result.classes, info_result.classes \o math_result.classes)

\* C1 witness: both sources succeeded with a class in common, and the HTML
\* source has a class of its own
C1_Witness ==
    /\ result.returned
    /\ info_result.success /\ math_result.success
    /\ \E i \in 1..Len(info_result.classes), j \in 1..Len(math_result.classes) :
         info_result.classes[i] = math_result.classes[j]
    /\ \E i \in 1..Len(info_result.classes) :
         \A j \in 1..Len(math_result.classes) : info_result.classes[i] # math_result.classes[j]

\* C2: success is true iff at least one source reported success; the
\* sources map holds the HTML source's flag under gobierno and the
\* spreadsheet source's flag under sharepoint.
C2_SuccessIffAnySource ==
    result.returned =>
        /\ result.success = (info_result.success \/ math_result.success)
        /\ result.sources.gobierno = info_result.success
        /\ result.sources.sharepoint = math_result.success

\* C2 witness: exactly one source succeeded
C2_Witness ==
    /\ result.returned
    /\ info_result.success
    /\ ~math_result.success

\* C3: once the session is initialized both sources are attempted and
\* both results are kept: when scrape_all reaches its finally clause the
\* spreadsheet source has been invoked and each source has returned.
C3_BothSourcesAttempted ==
    pc = "sa_finally" =>
        /\ math_called
        /\ info_result.returned
        /\ math_result.returned

\* the find-and-download call ended on a failure
MathFailed == lastOutcome \in {"page", "nav", "rows", "container", "enum", "scroll", "download"}

\* C4: a source whose browser operation failed (and that got no data)
\* returns success=false with no classes; it does not raise.
C4_FailureIsFailedResult ==
    /\ (pc = "info_ret" /\ infoFault # "none" /\ ~infoYield) =>
          /\ exc = NoExc
          /\ info_result.returned
          /\ ~info_result.success
          /\ info_result.classes = <<>>
    /\ (pc = "math_ret" /\ MathFailed) =>
          /\ exc = NoExc
          /\ math_result.returned
          /\ ~math_result.success
          /\ math_result.classes = <<>>

----------------------------------------------------------------------------
(* Claims about the ScrapperManager, checked under SpecManager *)

\* C5: every page yielded by get_page() is closed when its scope is left,
\* whether the body returned or raised, and the body's exception (if any)
\* is the one that reaches the caller.
C5_ScopedPageClosed ==
    lastOp = "get_page_exit" =>
        /\ scopePage # None
        /\ ~IsOpen(world, scopePage)
        /\ exc = bodyExc

\* C5 witness: a scope was left by an exception of its body
C5_Witness ==
    /\ lastOp = "get_page_exit"
    /\ bodyExc = ValueError
    /\ scopePage # None

\* C6: cleanup() on a manager on which initialize() was never called
\* completes without raising and changes nothing.
C6_CleanupWithoutInitIsNoop ==
    (lastOp = "cleanup" /\ world.gen = 0) =>
        /\ exc = NoExc
        /\ world = WorldNew
        /\ mgr = ManagerNew

\* the steps of cleanup() whose guard holds for the manager's fields
CleanupDue ==
    (IF mgr.context # None THEN {1} ELSE {})
    \cup (IF mgr.browser # None THEN {2} ELSE {})
    \cup (IF mgr.playwright # Unset THEN {3} ELSE {})
    \cup (IF mgr.temp_dir # None THEN {4} ELSE {})

\* C7: cleanup() is best-effort per step: when one of its steps fails,
\* each of the other steps is still executed.
C7_CleanupBestEffort ==
    (lastOp = "cleanup" /\ cleanupFault # 0) => CleanupDue \subseteq cleanupRan

\* C8: create_page() before initialize() fails at once, without creating a
\* page, with the initialization error its test expects (a RuntimeError
\* matching 'ScrapperManager no inicializado').
C8_CreatePageBeforeInit ==
    (lastOp \in {"create_page", "get_page_enter"} /\ world.gen = 0) =>
        /\ exc = ExpectedInitError
        /\ world = WorldNew

----------------------------------------------------------------------------
(* Claims about the file locator, checked under SpecLocator *)

TransientFailures == {"nav", "rows", "container", "enum", "scroll"}

\* C10: when every find-and-download attempt fails with a transient
\* failure, exactly MAX_RETRIES attempts, each navigating to the root URL,
\* are made before the call degrades to not-found.
C10_ExactlyMaxRetries ==
    (pc = "sd_ret" /\ math.file_path = NoPath /\ lastOutcome \in TransientFailures) =>
        navigations = MAX_RETRIES

----------------------------------------------------------------------------
(* Claims about get_element_by_uo, checked under SpecListing *)

\* the outcomes with which an attempt fails
FailedAttempt == {"nav", "nohref", "attr", "navhref"}

\* every attempt made on the k-th candidate URL failed
AllFailed(k) == \A j \in 1..Len(attempts[k]) : attempts[k][j] \in FailedAttempt

\* C11: when the listing locator is done with a candidate URL on which
\* every attempt failed (it went on to the next URL or ended), exactly
\* MAX_RETRIES = 3 attempts were made on that URL.
C11_ExactlyMaxAttemptsPerUrl ==
    \A k \in 1..Len(attempts) :
        (AllFailed(k) /\ (k < Len(attempts) \/ pc = "geu_ret")) =>
            Len(attempts[k]) = Info_MAX_RETRIES

C13_NavigationErrorRaised ==
    (/\ pc = "geu_ret"
     /\ \A k \in 1..Len(attempts) : \A j \in 1..Len(attempts[k]) : attempts[k][j] = "nav")
    => exc = PlaywrightError /\ ret = Unset

----------------------------------------------------------------------------
(* Claims about the functions, checked under SpecFunctions *)

\* C14: process_xlsx_file called with a path at which no file exists
\* returns success = false and no classes.
C14_MissingFileFailsSoftly ==
    (pc = "fn_done" /\ fn = "process_xlsx_file" /\ arg \notin world.files) =>
        /\ ret.success = FALSE
        /\ ret.classes = <<>>

\* the digits of an identifier
DigitsOf(uo) == SelectSeq(uo, LAMBDA c : c \in Digits)

\* C15: for an optional "uo" prefix in any letter case followed by digits,
\* the identifier scrape_all uses is lowercase "uo" followed by the digits,
\* whether main_async normalized the input first or scrape_all was called
\* with it.
C15_NormalizedLowercase ==
    (pc = "fn_done" /\ fn \in {"main", "scrape_all"}) =>
        ret = <<"u", "o">> \o DigitsOf(arg)

\* C17: for the paragraph "Asignaturas: t1; t2; ...; tn" getListClass
\* returns the tokens t1, ..., tn, in this order and as many, whatever
\* paragraphs follow.
C17_GetListClassSplits ==
    (pc = "fn_done" /\ fn = "getListClass") =>
        \A t \in TokenLists :
            (Len(arg) > 0 /\ arg[1] = PageText(t)) => (ret.ok /\ ret.class_list = t)

C17_Witness ==
    /\ pc = "fn_done"
    /\ fn = "getListClass"
    /\ arg = << <<"Asignaturas", ": ", "Alg.T.2", "; ", "Alg.S.1", "; ", "Alg.L.3">> >>
    /\ ret.class_list = << <<"Alg.T.2">>, <<"Alg.S.1">>, <<"Alg.L.3">> >>

----------------------------------------------------------------------------
(* Claims about the scroll search, checked under SpecLocator *)

\* "Lista_clases_UO<digits>@uniovi.es.xls"
CanonicalTargets ==
    { ListaClases \o <<"U", "O">> \o d \o <<"@uniovi.es", ".xls">> : d \in DigitStrings }

\* C16: whatever identifier the entry point received, with or without the
\* "uo" prefix, the file name the spreadsheet source searches for is
\* "Lista_clases_UO<digits>@uniovi.es.xls".
C16_TargetFilenameCanonical ==
    (math.target_filename # <<>>) => math.target_filename \in CanonicalTargets

\* the first line of the row's text starts with "Lista_clases_" and, cut
\* just past its first ".xls", is the file name
NamesFile(row, name) ==
    /\ row.readable
    /\ LET line == Strip(FirstLine(row.text))
       IN  /\ StartsWith(line, ListaClases)
           /\ \E k \in 1..Len(line) :
                /\ line[k] = ".xls"
                /\ \A j \in 1..(k - 1) : line[j] # ".xls"
                /\ SubSeq(line, 1, k) = name

\* C19: when the download was triggered on a row, that row names the
\* target file and no row enumerated before it does.
C19_DownloadOnlyFirstMatch ==
    (trigger # NoTrigger) =>
        /\ trigger.hit \in 1..Len(trigger.rows)
        /\ NamesFile(trigger.rows[trigger.hit], math.target_filename)
        /\ \A j \in 1..(trigger.hit - 1) :
             ~NamesFile(trigger.rows[j], math.target_filename)

C19_Witness ==
    /\ pc = "saff_ret"
    /\ trigger.rows = <<HorarioRow, CopyRow, OtherRow, TargetRow>>
    /\ trigger.hit = 2
    /\ lastOutcome = "found"

\* C20: when the download on the matching row has failed, the attempt is
\* over: the search has returned None (no further iteration, no scroll),
\* nothing was raised, and no other attempt is made.
C20_FailedDownloadEndsAttempt ==
    (lastOutcome = "download") =>
        /\ pc \in {"saff_ret", "sd_ret"}
        /\ math.file_path = NoPath
        /\ exc = NoExc
        /\ navigations = 1 + math.retry_count

C20_Witness ==
    /\ pc = "sd_ret"
    /\ lastOutcome = "download"
    /\ math.file_path = NoPath
    /\ matchSeen

----------------------------------------------------------------------------
(* Claims about the HTML source, checked under Spec *)

\* C18: when the detail page of a candidate URL lacks the class paragraph
\* or its ": " delimiter, that URL contributes no classes and is not
\* counted as a success, the HTML source goes on to the next URL without
\* raising; when no URL yields a list the source returns success = false.
C18_ParseFailureStaysInSource ==
    /\ [][(pc = "info_list" /\ infoFault' = "parse") =>
             /\ info'.all_classes = info.all_classes
             /\ info'.success_count = info.success_count
             /\ info'.url_index = info.url_index + 1
             /\ pc' = "info_url"
             /\ exc' = NoExc]_vars
    /\ []((pc = "info_ret" /\ infoFault = "parse") =>
             /\ exc = NoExc
             /\ info_result.returned
             /\ ~infoYield => (~info_result.success /\ info_result.classes = <<>>))

C18_Witness ==
    /\ pc = "info_ret"
    /\ infoFault = "parse"
    /\ ~infoYield
    /\ info_result.returned
    /\ ~info_result.success

----------------------------------------------------------------------------
(* Claims about the spreadsheet source *)

\* C21: once the spreadsheet source's scrape_and_process has finished, by
\* returning or by raising, no file it downloaded is left in the session's
\* temporary directory.
C21_DownloadedFileRemoved ==
    (pc = "math_ret") => world.files = {}

C21_Witness ==
    /\ pc = "math_ret"
    /\ lastOutcome = "found"
    /\ math_result.returned
    /\ world.files = {}

\* C22: the waits between failed find-and-download attempts are 5 seconds
\* after the first failed attempt and 10 seconds after the second; there is
\* one wait per failed attempt but the last (third), after which there is none.
C22_LinearBackoff ==
    /\ Len(waits) <= 2
    /\ waits = SubSeq(<<5, 10>>, 1, Len(waits))
    /\ (pc \in {"sd_attempt", "saff_scan", "saff_end", "saff_ret", "sd_ret", "sd_raise"}) =>
          Len(waits) = (IF math.retry_count < MAX_RETRIES THEN math.retry_count
                        ELSE MAX_RETRIES - 1)

C22_Witness ==
    /\ pc = "sd_ret"
    /\ math.retry_count = MAX_RETRIES
    /\ navigations = MAX_RETRIES
    /\ waits = <<5, 10>>

\* C29: not-found is reported only after a scan of what the last scroll
\* rendered: when the scroll loop ends without a match, the list does not
\* render the target row (a row rendered by the k-th scroll, k up to 500,
\* has been found).
C29_RescanAfterEveryScroll ==
    (pc = "saff_end" /\ lastOutcome = "notfound") => ~world.rendered

----------------------------------------------------------------------------
(* Claims about the session and the process boundary *)

\* initialize() raised in scrape_all
InitFailed == lastOp = "initialize" /\ exc # NoExc

\* C23: when the session cannot be initialized, no source is invoked and
\* no page is opened, and main_async prints {success: false, error} and
\* exits with code 1, leaving no exception unhandled; a source runs only on
\* an initialized session.
C23_InitFailureIsErrorPayload ==
    /\ (pc = "exited" /\ InitFailed) =>
          /\ ~math_called
          /\ info_result = NoInfoResult
          /\ world.nextPage = WorldNew.nextPage
          /\ ret.success = FALSE
          /\ ret.error = exc.msg
          /\ ret.code = 1
          /\ ret.unhandled = NoExc
    /\ (pc \notin {"sa_start", "sa_done", "exited"}) => mgr.context # None

C23_Witness ==
    /\ pc = "exited"
    /\ InitFailed
    /\ world.browsers # {}
    /\ ret.code = 1

\* C24: after one initialize() that succeeded and a cleanup() in which no
\* step failed, no context, browser, engine or page is left, and the
\* temporary directory and the files in it are gone.
C24_CleanupReleasesSession ==
    (/\ lastOp = "cleanup"
     /\ exc = NoExc
     /\ world.gen = 1
     /\ mgr.context # None)
    => /\ world.contexts = {}
       /\ world.browsers = {}
       /\ world.engines = {}
       /\ world.pages = {}
       /\ world.dirs = {}
       /\ world.files = {}

C24_Witness ==
    /\ lastOp = "cleanup"
    /\ exc = NoExc
    /\ world.gen = 1
    /\ cleanupRan = {1, 2, 3, 4}
    /\ world.dirs = {}
    /\ calls = 3

\* C25: process_xlsx_file on the downloaded spreadsheet returns as classes
\* the cells of the Subject-GroupCode shape ("MOR-PL1") and none of the
\* room codes, clock ranges, weekday names and header labels.
C25_RecognizerClassifiesCells ==
    (pc = "fn_done" /\ fn = "process_xlsx_file" /\ arg \in world.files) =>
        \A cell \in Cells :
            (\E i \in 1..Len(ret.classes) : ret.classes[i] = <<cell>>) <=> (cell = "MOR-PL1")

C27_NoLeakAfterReinitialize ==
    (lastOp = "cleanup" /\ exc = NoExc) =>
        /\ world.contexts = {}
        /\ world.browsers = {}
        /\ world.engines = {}
        /\ world.dirs = {}

\* C28: when initialize() fails part-way in scrape_all, what it acquired
\* before the failing step is released when scrape_all has raised.
C28_PartialInitReleased ==
    (pc \in {"sa_done", "exited"} /\ InitFailed) =>
        /\ world.engines = {}
        /\ world.browsers = {}
        /\ world.dirs = {}

\* C30: once initialize() has succeeded, cleanup() is invoked on every way
\* out of scrape_all, once (only by the finally clause, which runs when no
\* cleanup has run), and only when every page opened is closed.
C30_CleanupOnceAfterPagesClosed ==
    /\ [](pc = "sa_finally" =>
             /\ lastOp # "cleanup"
             /\ mgr.context # None
             /\ world.pages = {})
    /\ []((pc \in {"sa_done", "exited"}) => ((lastOp = "cleanup") <=> (mgr.context # None)))
    /\ [][(lastOp' = "cleanup") => (pc = "sa_finally" /\ pc' = "sa_done") \/ lastOp = "cleanup"]_vars
    /\ [][(lastOp = "cleanup") => (world' = world /\ cleanupRan' = cleanupRan)]_vars

C30_Witness ==
    /\ pc = "sa_done"
    /\ lastOp = "cleanup"
    /\ cleanupFault = 0
    /\ math_called
    /\ exc = PlaywrightError

----------------------------------------------------------------------------
(* Termination of scrape_all, checked under SpecLive *)

\* C31: every run of scrape_all ends, by returning or by raising, whatever
\* fails; on the way there are never more than MAX_RETRIES navigations to
\* one candidate URL, MAX_RETRIES find-and-download attempts, and 500
\* scrolls in one attempt.
C31_ScrapeAllTerminates ==
    /\ <>(pc = "sa_done")
    /\ [](/\ info.retry_count <= Info_MAX_RETRIES
          /\ navigations <= MAX_RETRIES
          /\ math.retry_count <= MAX_RETRIES
          /\ math.scroll_attempts <= max_scroll_attempts)

C31_Witness ==
    /\ pc = "sa_done"
    /\ lastOp = "cleanup"
    /\ navigations = MAX_RETRIES
    /\ lastOutcome = "notfound"
    /\ math_result.returned

----------------------------------------------------------------------------
(* Claims about the source results, checked under Spec *)

\* the lists of the candidate URLs tried, one after the other
RECURSIVE ConcatYields(_)
ConcatYields(a) ==
    IF a = <<>> THEN <<>> ELSE Head(a).classes \o ConcatYields(Tail(a))

\* C32: when InfoService.scrape_and_process has finished, it has returned a
\* result after trying every candidate URL, each on a page of its own;
\* sources_found is the number of URLs that gave a class list, success says
\* whether there is one, and classes is the concatenation of the lists
\* without the repetitions, in the order of first occurrence.
C32_InfoResultOverAllUrls ==
    (pc = "info_ret") =>
        /\ info_result.returned
        /\ Len(attempts) = NumUrls
        /\ world.nextPage = WorldNew.nextPage + NumUrls
        /\ info_result.sources_found = Cardinality({k \in 1..Len(attempts) : attempts[k].yield})
        /\ info_result.success = (info_result.sources_found > 0)
        /\ IsOrderedDedup(info_result.classes, ConcatYields(attempts))

\* C33: the uo of a source's result is the identifier scrape_all passed to
\* that source, for the HTML source and for the spreadsheet source.
C33_ResultCarriesIdentifier ==
    /\ info_result.returned => info_result.uo = uo_formatted
    /\ math_result.returned => math_result.uo = uo_formatted

====
